---- MODULE Spec2Model ----
(***************************************************************************)
(* Collision candidates of ipc-toolkit (src/broad_phase/                   *)
(* collision_candidate.cpp): the five candidate value types with their     *)
(* comparators, the CCD dispatch of EV / EE / FV candidates, the           *)
(* Candidates container and the OBJ debug writers.                         *)
(***************************************************************************)
EXTENDS Integers, Sequences, FiniteSets, TLC

VARIABLES
    ev_candidates,  \* Candidates::ev_candidates
    ee_candidates,  \* Candidates::ee_candidates
    fv_candidates,  \* Candidates::fv_candidates
    ef_candidates,  \* the edge-face list handed to save_obj(EdgeFaceCandidate)
    vertices_t0,    \* vertex positions at t=0 (the V of save_obj)
    vertices_t1,    \* vertex positions at t=1
    edges,          \* edge table, rows of two vertex indices
    faces,          \* face table, rows of three vertex indices
    cand,           \* the candidate objects an operation is applied to
    ret             \* what the last operation returned or wrote

vars == <<ev_candidates, ee_candidates, fv_candidates, ef_candidates,
          vertices_t0, vertices_t1, edges, faces, cand, ret>>

container == <<ev_candidates, ee_candidates, fv_candidates>>
mesh == <<vertices_t0, vertices_t1, edges, faces>>

----------------------------------------------------------------------------
(* Bounds of the model *)

\* largest index a comparator operand holds (operands range over -1..MaxIndex)
MaxIndex == 1
\* number of rows of the vertex tables
NumVertices == 3
\* number of rows of the edge table
NumEdges == 2
\* number of rows of the face table
NumFaces == 1
\* largest Candidates::size() the container grows to
MaxTotal == 3
\* largest length of the edge-face list
MaxEF == 1
\* largest number of lines a failing stream accepts before it fails
MaxWrites == 4

Idx == -1 .. MaxIndex
Verts == 0 .. (NumVertices - 1)
Edges == 0 .. (NumEdges - 1)
Faces == 0 .. (NumFaces - 1)

Min(a, b) == IF a < b THEN a ELSE b
Max(a, b) == IF a < b THEN b ELSE a

----------------------------------------------------------------------------
(* Candidate entities: constructors and comparators *)

VertexVertexCandidate(vertex0_index, vertex1_index) ==
    [vertex0_index |-> vertex0_index, vertex1_index |-> vertex1_index]

VertexVertexCandidate_eq(this, other) ==
    /\ this.vertex0_index = other.vertex0_index
    /\ this.vertex1_index = other.vertex1_index

VertexVertexCandidate_lt(this, other) ==
    IF this.vertex0_index = other.vertex0_index
    THEN this.vertex1_index < other.vertex1_index
    ELSE this.vertex0_index < other.vertex0_index

EdgeVertexCandidate(edge_index, vertex_index) ==
    [edge_index |-> edge_index, vertex_index |-> vertex_index]

EdgeVertexCandidate_eq(this, other) ==
    this.edge_index = other.edge_index /\ this.vertex_index = other.vertex_index

\* mutant: the tie on edge_index is broken by <= instead of <
EdgeVertexCandidate_lt_Mutant(this, other) ==
    IF this.edge_index = other.edge_index
    THEN this.vertex_index <= other.vertex_index
    ELSE this.edge_index < other.edge_index

EdgeVertexCandidate_lt(this, other) ==
    IF this.edge_index = other.edge_index
    THEN this.vertex_index < other.vertex_index
    ELSE this.edge_index < other.edge_index

EdgeEdgeCandidate(edge0_index, edge1_index) ==
    [edge0_index |-> edge0_index, edge1_index |-> edge1_index]

EdgeEdgeCandidate_eq(this, other) ==
    \/ (this.edge0_index = other.edge0_index
        /\ this.edge1_index = other.edge1_index)
    \/ (this.edge0_index = other.edge1_index
        /\ this.edge1_index = other.edge0_index)

\* mutant: the fields are compared as stored, without std::min / std::max
EdgeEdgeCandidate_lt_Mutant(this, other) ==
    IF this.edge0_index = other.edge0_index
    THEN this.edge1_index < other.edge1_index
    ELSE this.edge0_index < other.edge0_index

EdgeEdgeCandidate_lt(this, other) ==
    LET this_min == Min(this.edge0_index, this.edge1_index)
        other_min == Min(other.edge0_index, other.edge1_index)
    IN  IF this_min = other_min
        THEN Max(this.edge0_index, this.edge1_index)
                < Max(other.edge0_index, other.edge1_index)
        ELSE this_min < other_min

EdgeFaceCandidate(edge_index, face_index) ==
    [edge_index |-> edge_index, face_index |-> face_index]

EdgeFaceCandidate_eq(this, other) ==
    this.edge_index = other.edge_index /\ this.face_index = other.face_index

EdgeFaceCandidate_lt(this, other) ==
    IF this.edge_index = other.edge_index
    THEN this.face_index < other.face_index
    ELSE this.edge_index < other.edge_index

FaceVertexCandidate(face_index, vertex_index) ==
    [face_index |-> face_index, vertex_index |-> vertex_index]

FaceVertexCandidate_eq(this, other) ==
    this.face_index = other.face_index /\ this.vertex_index = other.vertex_index

FaceVertexCandidate_lt(this, other) ==
    IF this.face_index = other.face_index
    THEN this.vertex_index < other.vertex_index
    ELSE this.face_index < other.face_index

Kinds == {"VV", "EV", "EE", "EF", "FV"}

\* the constructor of each kind
Construct(kind, a, b) ==
    CASE kind = "VV" -> VertexVertexCandidate(a, b)
      [] kind = "EV" -> EdgeVertexCandidate(a, b)
      [] kind = "EE" -> EdgeEdgeCandidate(a, b)
      [] kind = "EF" -> EdgeFaceCandidate(a, b)
      [] kind = "FV" -> FaceVertexCandidate(a, b)

\* the first and the second constructor argument, as the object stores them
First(kind, c) ==
    CASE kind = "VV" -> c.vertex0_index
      [] kind = "EV" -> c.edge_index
      [] kind = "EE" -> c.edge0_index
      [] kind = "EF" -> c.edge_index
      [] kind = "FV" -> c.face_index

Second(kind, c) ==
    CASE kind = "VV" -> c.vertex1_index
      [] kind = "EV" -> c.vertex_index
      [] kind = "EE" -> c.edge1_index
      [] kind = "EF" -> c.face_index
      [] kind = "FV" -> c.vertex_index

\* operator== of each kind
OpEq(kind, x, y) ==
    CASE kind = "VV" -> VertexVertexCandidate_eq(x, y)
      [] kind = "EV" -> EdgeVertexCandidate_eq(x, y)
      [] kind = "EE" -> EdgeEdgeCandidate_eq(x, y)
      [] kind = "EF" -> EdgeFaceCandidate_eq(x, y)
      [] kind = "FV" -> FaceVertexCandidate_eq(x, y)

\* operator< of each kind
OpLt(kind, x, y) ==
    CASE kind = "VV" -> VertexVertexCandidate_lt(x, y)
      [] kind = "EV" -> EdgeVertexCandidate_lt(x, y)
      [] kind = "EE" -> EdgeEdgeCandidate_lt(x, y)
      [] kind = "EF" -> EdgeFaceCandidate_lt(x, y)
      [] kind = "FV" -> FaceVertexCandidate_lt(x, y)

----------------------------------------------------------------------------
(* Comparators applied to operands drawn from Idx *)

NoMesh ==
    /\ vertices_t0 = <<>> /\ vertices_t1 = <<>> /\ edges = <<>> /\ faces = <<>>

NoContainer ==
    /\ ev_candidates = <<>> /\ ee_candidates = <<>> /\ fv_candidates = <<>>
    /\ ef_candidates = <<>>

InitCmp ==
    /\ NoMesh
    /\ NoContainer
    /\ \E kind \in Kinds : \E a, b, c, d, e, f \in Idx :
          cand = [kind |-> kind,
                  x |-> Construct(kind, a, b),
                  y |-> Construct(kind, c, d),
                  z |-> Construct(kind, e, f)]
    /\ ret = [op |-> "none"]

\* x, y, z compared with each other
Compare ==
    /\ ret' = [op |-> "compare",
               eq_xy |-> OpEq(cand.kind, cand.x, cand.y),
               eq_yx |-> OpEq(cand.kind, cand.y, cand.x),
               lt_xy |-> OpLt(cand.kind, cand.x, cand.y),
               lt_yx |-> OpLt(cand.kind, cand.y, cand.x),
               lt_yz |-> OpLt(cand.kind, cand.y, cand.z),
               lt_xz |-> OpLt(cand.kind, cand.x, cand.z)]
    /\ UNCHANGED <<container, ef_candidates, mesh, cand>>

\* x compared with the candidate built from x's arguments in the other order,
\* and both compared with y
CompareSwapped ==
    LET k == cand.kind
        sx == Construct(k, Second(k, cand.x), First(k, cand.x))
    IN  /\ ret' = [op |-> "swapped",
                   eq_x_sx |-> OpEq(k, cand.x, sx),
                   eq_sx_x |-> OpEq(k, sx, cand.x),
                   lt_x_sx |-> OpLt(k, cand.x, sx),
                   lt_sx_x |-> OpLt(k, sx, cand.x),
                   lt_x_y  |-> OpLt(k, cand.x, cand.y),
                   lt_sx_y |-> OpLt(k, sx, cand.y),
                   lt_y_x  |-> OpLt(k, cand.y, cand.x),
                   lt_y_sx |-> OpLt(k, cand.y, sx)]
        /\ UNCHANGED <<container, ef_candidates, mesh, cand>>

NextCmp == Compare \/ CompareSwapped

SpecCmp == InitCmp /\ [][NextCmp]_vars

----------------------------------------------------------------------------
\* (a1, a2) before (b1, b2) in the lexicographic order
LexLess(a1, a2, b1, b2) == a1 < b1 \/ (a1 = b1 /\ a2 < b2)

\* C3: edge-edge candidates have unordered identity: EE(a,b) == EE(b,a),
\* neither is < the other, x < y is the lexicographic comparison of
\* (min(e0,e1), max(e0,e1)), and comparing against y gives the same answer
\* whichever way round x's two edges were supplied.
C3_EdgeEdgeUnordered ==
    cand.kind = "EE" =>
        /\ ret.op = "swapped" =>
              /\ ret.eq_x_sx /\ ret.eq_sx_x
              /\ ~ret.lt_x_sx /\ ~ret.lt_sx_x
              /\ ret.lt_sx_y = ret.lt_x_y
              /\ ret.lt_y_sx = ret.lt_y_x
        /\ ret.op = "compare" =>
              ret.lt_xy = LexLess(
                  Min(cand.x.edge0_index, cand.x.edge1_index),
                  Max(cand.x.edge0_index, cand.x.edge1_index),
                  Min(cand.y.edge0_index, cand.y.edge1_index),
                  Max(cand.y.edge0_index, cand.y.edge1_index))

C3_Witness ==
    /\ cand.kind = "EE"
    /\ ret.op = "swapped"
    /\ cand.x.edge0_index > cand.x.edge1_index
    /\ cand.y.edge0_index < cand.y.edge1_index
    /\ ret.lt_x_y

\* C4: vertex-vertex candidates are symmetric: VV(a,b) and VV(b,a) compare
\* equal and neither is < the other.
C4_VertexVertexSymmetric ==
    (cand.kind = "VV" /\ ret.op = "swapped") =>
        /\ ret.eq_x_sx /\ ret.eq_sx_x
        /\ ~ret.lt_x_sx /\ ~ret.lt_sx_x

ExactlyOne(p, q, r) ==
    (p /\ ~q /\ ~r) \/ (~p /\ q /\ ~r) \/ (~p /\ ~q /\ r)

\* C5: for each kind operator< is a strict total order consistent with
\* operator==: exactly one of x < y, x == y, y < x holds, < is transitive,
\* for EV, FV and EF it is lexicographic on (first, second), and a candidate
\* with its two fields swapped is == to it only when the fields are equal.
C5_StrictTotalOrder ==
    LET k == cand.kind
    IN  /\ ret.op = "compare" =>
              /\ ExactlyOne(ret.lt_xy, ret.eq_xy, ret.lt_yx)
              /\ ret.eq_xy = ret.eq_yx
              /\ (ret.lt_xy /\ ret.lt_yz) => ret.lt_xz
              /\ k \in {"EV", "FV", "EF"} =>
                    ret.lt_xy = LexLess(First(k, cand.x), Second(k, cand.x),
                                        First(k, cand.y), Second(k, cand.y))
        /\ (ret.op = "swapped" /\ k \in {"EV", "FV", "EF"}) =>
              (ret.eq_x_sx <=> First(k, cand.x) = Second(k, cand.x))

C5_Witness ==
    /\ cand.kind = "EV"
    /\ ret.op = "compare"
    /\ cand.x.edge_index = cand.y.edge_index
    /\ ret.lt_xy /\ ret.lt_yz /\ ret.lt_xz

----------------------------------------------------------------------------
(* CCD dispatch *)

\* a row of the edge table and a row of the face table, columns counted from 0
Row2(a, b) == [c \in 0 .. 1 |-> IF c = 0 THEN a ELSE b]
Row3(a, b, c) == [k \in 0 .. 2 |-> IF k = 0 THEN a ELSE IF k = 1 THEN b ELSE c]

\* the meshes the operations are run on: rows of V are points <<x, y>>
VertexTable0(s) == [v \in Verts |-> <<v + s, 0>>]
VertexTable1(s) == [v \in Verts |-> <<v + s, 1>>]
EdgeTable(s) ==
    [e \in Edges |-> Row2((e + s) % NumVertices, (e + s + 1) % NumVertices)]
EdgeTableReversed(s) ==
    [e \in Edges |-> Row2((e + s + 1) % NumVertices, (e + s) % NumVertices)]
FaceTable(s) ==
    [f \in Faces |-> Row3((f + s) % NumVertices, (f + s + 1) % NumVertices,
                          (f + s + 2) % NumVertices)]
VertexTables0 == {VertexTable0(s) : s \in 0 .. 1}
VertexTables1 == {VertexTable1(s) : s \in {0, NumVertices}}
EdgeTables == {EdgeTable(s) : s \in 0 .. 1} \cup {EdgeTableReversed(s) : s \in 0 .. 1}
FaceTables == {FaceTable(s) : s \in 0 .. 1}

\* the values the scalar arguments of ccd() range over
TmaxValues == {10, 11}
ToleranceValues == {20}
MaxIterationsValues == {30, 31}
RescalingValues == {40}
\* what a kernel may answer: it decides hit and toi by itself
KernelOutcomes == [hit : BOOLEAN, toi : 0 .. 1]

\* The narrow-phase kernels: each is handed the primitives at t=0, the
\* primitives at t=1 and the scalar arguments, and answers k.
point_edge_ccd(p_t0, e0_t0, e1_t0, p_t1, e0_t1, e1_t1, tmax, tolerance, max_iterations, conservative_rescaling, k) ==
    [kernel |-> "point_edge_ccd",
     t0 |-> <<p_t0, e0_t0, e1_t0>>, t1 |-> <<p_t1, e0_t1, e1_t1>>,
     tmax |-> tmax, tolerance |-> tolerance,
     max_iterations |-> max_iterations,
     conservative_rescaling |-> conservative_rescaling,
     hit |-> k.hit, toi |-> k.toi]

edge_edge_ccd(ea0_t0, ea1_t0, eb0_t0, eb1_t0, ea0_t1, ea1_t1, eb0_t1, eb1_t1, tmax, tolerance, max_iterations, conservative_rescaling, k) ==
    [kernel |-> "edge_edge_ccd",
     t0 |-> <<ea0_t0, ea1_t0, eb0_t0, eb1_t0>>,
     t1 |-> <<ea0_t1, ea1_t1, eb0_t1, eb1_t1>>,
     tmax |-> tmax, tolerance |-> tolerance,
     max_iterations |-> max_iterations,
     conservative_rescaling |-> conservative_rescaling,
     hit |-> k.hit, toi |-> k.toi]

point_triangle_ccd(p_t0, t0_t0, t1_t0, t2_t0, p_t1, t0_t1, t1_t1, t2_t1, tmax, tolerance, max_iterations, conservative_rescaling, k) ==
    [kernel |-> "point_triangle_ccd",
     t0 |-> <<p_t0, t0_t0, t1_t0, t2_t0>>,
     t1 |-> <<p_t1, t0_t1, t1_t1, t2_t1>>,
     tmax |-> tmax, tolerance |-> tolerance,
     max_iterations |-> max_iterations,
     conservative_rescaling |-> conservative_rescaling,
     hit |-> k.hit, toi |-> k.toi]

EdgeVertexCandidate_ccd(this, V0, V1, E, F, tmax, tolerance, max_iterations, conservative_rescaling, k) ==
    point_edge_ccd(
        V0[this.vertex_index],
        V0[E[this.edge_index][0]], V0[E[this.edge_index][1]],
        V1[this.vertex_index],
        V1[E[this.edge_index][0]], V1[E[this.edge_index][1]],
        tmax, tolerance, max_iterations, conservative_rescaling, k)

\* mutant: the second edge at t=1 is read from the first edge's row
EdgeEdgeCandidate_ccd_Mutant(this, V0, V1, E, F, tmax, tolerance, max_iterations, conservative_rescaling, k) ==
    edge_edge_ccd(
        V0[E[this.edge0_index][0]], V0[E[this.edge0_index][1]],
        V0[E[this.edge1_index][0]], V0[E[this.edge1_index][1]],
        V1[E[this.edge0_index][0]], V1[E[this.edge0_index][1]],
        V1[E[this.edge0_index][0]], V1[E[this.edge0_index][1]],
        tmax, tolerance, max_iterations, conservative_rescaling, k)

EdgeEdgeCandidate_ccd(this, V0, V1, E, F, tmax, tolerance, max_iterations, conservative_rescaling, k) ==
    edge_edge_ccd(
        V0[E[this.edge0_index][0]], V0[E[this.edge0_index][1]],
        V0[E[this.edge1_index][0]], V0[E[this.edge1_index][1]],
        V1[E[this.edge0_index][0]], V1[E[this.edge0_index][1]],
        V1[E[this.edge1_index][0]], V1[E[this.edge1_index][1]],
        tmax, tolerance, max_iterations, conservative_rescaling, k)

FaceVertexCandidate_ccd(this, V0, V1, E, F, tmax, tolerance, max_iterations, conservative_rescaling, k) ==
    point_triangle_ccd(
        V0[this.vertex_index],
        V0[F[this.face_index][0]], V0[F[this.face_index][1]],
        V0[F[this.face_index][2]],
        V1[this.vertex_index],
        V1[F[this.face_index][0]], V1[F[this.face_index][1]],
        V1[F[this.face_index][2]],
        tmax, tolerance, max_iterations, conservative_rescaling, k)

InitCcd ==
    /\ vertices_t0 \in VertexTables0
    /\ vertices_t1 \in VertexTables1
    /\ edges \in EdgeTables
    /\ faces \in FaceTables
    /\ NoContainer
    /\ \/ \E e \in Edges, v \in Verts :
             cand = [kind |-> "EV", x |-> EdgeVertexCandidate(e, v)]
       \/ \E e0, e1 \in Edges :
             cand = [kind |-> "EE", x |-> EdgeEdgeCandidate(e0, e1)]
       \/ \E f \in Faces, v \in Verts :
             cand = [kind |-> "FV", x |-> FaceVertexCandidate(f, v)]
    /\ ret = [op |-> "none"]

CcdReturn(tmax, tolerance, max_iterations, conservative_rescaling, k, r) ==
    [op |-> "ccd", tmax |-> tmax, tolerance |-> tolerance,
     max_iterations |-> max_iterations,
     conservative_rescaling |-> conservative_rescaling,
     kernel_answer |-> k, call |-> r, result |-> r.hit, toi |-> r.toi]

CcdEV ==
    /\ cand.kind = "EV"
    /\ \E tmax \in TmaxValues, tolerance \in ToleranceValues,
          max_iterations \in MaxIterationsValues,
          conservative_rescaling \in RescalingValues, k \in KernelOutcomes :
          ret' = CcdReturn(tmax, tolerance, max_iterations,
                    conservative_rescaling, k,
                    EdgeVertexCandidate_ccd(cand.x, vertices_t0, vertices_t1,
                        edges, faces, tmax, tolerance, max_iterations,
                        conservative_rescaling, k))
    /\ UNCHANGED <<container, ef_candidates, mesh, cand>>

CcdEE ==
    /\ cand.kind = "EE"
    /\ \E tmax \in TmaxValues, tolerance \in ToleranceValues,
          max_iterations \in MaxIterationsValues,
          conservative_rescaling \in RescalingValues, k \in KernelOutcomes :
          ret' = CcdReturn(tmax, tolerance, max_iterations,
                    conservative_rescaling, k,
                    EdgeEdgeCandidate_ccd(cand.x, vertices_t0, vertices_t1,
                        edges, faces, tmax, tolerance, max_iterations,
                        conservative_rescaling, k))
    /\ UNCHANGED <<container, ef_candidates, mesh, cand>>

CcdFV ==
    /\ cand.kind = "FV"
    /\ \E tmax \in TmaxValues, tolerance \in ToleranceValues,
          max_iterations \in MaxIterationsValues,
          conservative_rescaling \in RescalingValues, k \in KernelOutcomes :
          ret' = CcdReturn(tmax, tolerance, max_iterations,
                    conservative_rescaling, k,
                    FaceVertexCandidate_ccd(cand.x, vertices_t0, vertices_t1,
                        edges, faces, tmax, tolerance, max_iterations,
                        conservative_rescaling, k))
    /\ UNCHANGED <<container, ef_candidates, mesh, cand>>

NextCcd == CcdEV \/ CcdEE \/ CcdFV

SpecCcd == InitCcd /\ [][NextCcd]_vars

\* the rows ccd() is to forward for the candidate under test
EdgeRowsAt(V, e) == <<V[edges[e][0]], V[edges[e][1]]>>
FaceRowsAt(V, f) == <<V[faces[f][0]], V[faces[f][1]], V[faces[f][2]]>>
ExpectedKernel ==
    CASE cand.kind = "EV" -> "point_edge_ccd"
      [] cand.kind = "EE" -> "edge_edge_ccd"
      [] cand.kind = "FV" -> "point_triangle_ccd"
ExpectedRows(V) ==
    CASE cand.kind = "EV" ->
            <<V[cand.x.vertex_index]>> \o EdgeRowsAt(V, cand.x.edge_index)
      [] cand.kind = "EE" ->
            EdgeRowsAt(V, cand.x.edge0_index) \o EdgeRowsAt(V, cand.x.edge1_index)
      [] cand.kind = "FV" ->
            <<V[cand.x.vertex_index]>> \o FaceRowsAt(V, cand.x.face_index)

C10_Forwarded ==
    ret.op = "ccd" =>
        /\ ret.call.kernel = ExpectedKernel
        /\ ret.call.t0 = ExpectedRows(vertices_t0)
        /\ ret.call.t1 = ExpectedRows(vertices_t1)
        /\ ret.call.tmax = ret.tmax
        /\ ret.call.tolerance = ret.tolerance
        /\ ret.call.max_iterations = ret.max_iterations
        /\ ret.call.conservative_rescaling = ret.conservative_rescaling
        /\ ret.result = ret.kernel_answer.hit
        /\ ret.toi = ret.kernel_answer.toi

\* C10: ccd() hands the kernel exactly the rows the candidate indexes, the
\* t=0 rows from V0 and the t=1 rows from V1 in matching order, passes tmax,
\* tolerance, max_iterations and conservative_rescaling through unchanged,
\* returns the kernel's boolean and toi, and leaves the candidate and the
\* mesh tables as they were.
C10_CcdDispatch ==
    /\ []C10_Forwarded
    /\ [][ret'.op = "ccd" => UNCHANGED <<mesh, cand>>]_vars

C10_Witness ==
    /\ ret.op = "ccd"
    /\ cand.kind = "EE"
    /\ cand.x.edge0_index # cand.x.edge1_index
    /\ vertices_t0 # vertices_t1
    /\ ret.result
    /\ ret.toi = 1

----------------------------------------------------------------------------
(* The Candidates container *)

\* the candidates the broad phase appends to the lists
EVInputs == {EdgeVertexCandidate(e, NumVertices - 1) : e \in {0, NumEdges - 1}}
EEInputs == {EdgeEdgeCandidate(0, NumEdges - 1), EdgeEdgeCandidate(NumEdges - 1, 0)}
FVInputs == {FaceVertexCandidate(NumFaces - 1, v) : v \in {0, NumVertices - 1}}
EFInputs == {EdgeFaceCandidate(e, NumFaces - 1) : e \in {0, NumEdges - 1}}

Candidates_size ==
    Len(ev_candidates) + Len(ee_candidates) + Len(fv_candidates)

\* mutant: the face-vertex list is forgotten
Candidates_empty_Mutant ==
    Len(ev_candidates) = 0 /\ Len(ee_candidates) = 0

Candidates_empty ==
    Len(ev_candidates) = 0 /\ Len(ee_candidates) = 0 /\ Len(fv_candidates) = 0

Candidates_clear ==
    /\ ev_candidates' = <<>>
    /\ ee_candidates' = <<>>
    /\ fv_candidates' = <<>>

OutOfRange == [thrown |-> TRUE, what |-> "Constraint index is out of range!"]
Reference(kind, at, value) ==
    [thrown |-> FALSE, kind |-> kind, at |-> at, value |-> value]

\* mutant: the index is not rebased after the edge-vertex list
Candidates_at_Mutant(idx) ==
    IF idx < 0 THEN OutOfRange
    ELSE IF idx < Len(ev_candidates)
    THEN Reference("EV", idx, ev_candidates[idx + 1])
    ELSE LET idx1 == idx
         IN  IF idx1 < Len(ee_candidates)
             THEN Reference("EE", idx1, ee_candidates[idx1 + 1])
             ELSE LET idx2 == idx1 - Len(ee_candidates)
                  IN  IF idx2 < Len(fv_candidates)
                      THEN Reference("FV", idx2, fv_candidates[idx2 + 1])
                      ELSE OutOfRange

\* operator[](size_t idx); std::vector counts from 0, a sequence from 1
Candidates_at(idx) ==
    IF idx < 0 THEN OutOfRange
    ELSE IF idx < Len(ev_candidates)
    THEN Reference("EV", idx, ev_candidates[idx + 1])
    ELSE LET idx1 == idx - Len(ev_candidates)
         IN  IF idx1 < Len(ee_candidates)
             THEN Reference("EE", idx1, ee_candidates[idx1 + 1])
             ELSE LET idx2 == idx1 - Len(ee_candidates)
                  IN  IF idx2 < Len(fv_candidates)
                      THEN Reference("FV", idx2, fv_candidates[idx2 + 1])
                      ELSE OutOfRange

\* operator[](size_t idx) const
Candidates_at_const(idx) ==
    IF idx < 0 THEN OutOfRange
    ELSE IF idx < Len(ev_candidates)
    THEN Reference("EV", idx, ev_candidates[idx + 1])
    ELSE LET idx1 == idx - Len(ev_candidates)
         IN  IF idx1 < Len(ee_candidates)
             THEN Reference("EE", idx1, ee_candidates[idx1 + 1])
             ELSE LET idx2 == idx1 - Len(ee_candidates)
                  IN  IF idx2 < Len(fv_candidates)
                      THEN Reference("FV", idx2, fv_candidates[idx2 + 1])
                      ELSE OutOfRange

\* the broad phase appends a candidate to one of the lists
AddEV ==
    /\ Candidates_size < MaxTotal
    /\ \E c \in EVInputs : ev_candidates' = Append(ev_candidates, c)
    /\ ret' = [op |-> "push_back"]
    /\ UNCHANGED <<ee_candidates, fv_candidates, ef_candidates, mesh, cand>>

AddEE ==
    /\ Candidates_size < MaxTotal
    /\ \E c \in EEInputs : ee_candidates' = Append(ee_candidates, c)
    /\ ret' = [op |-> "push_back"]
    /\ UNCHANGED <<ev_candidates, fv_candidates, ef_candidates, mesh, cand>>

AddFV ==
    /\ Candidates_size < MaxTotal
    /\ \E c \in FVInputs : fv_candidates' = Append(fv_candidates, c)
    /\ ret' = [op |-> "push_back"]
    /\ UNCHANGED <<ev_candidates, ee_candidates, ef_candidates, mesh, cand>>

AddEF ==
    /\ Len(ef_candidates) < MaxEF
    /\ \E c \in EFInputs : ef_candidates' = Append(ef_candidates, c)
    /\ ret' = [op |-> "push_back"]
    /\ UNCHANGED <<container, mesh, cand>>

Size ==
    /\ ret' = [op |-> "size", value |-> Candidates_size]
    /\ UNCHANGED <<container, ef_candidates, mesh, cand>>

Empty ==
    /\ ret' = [op |-> "empty", value |-> Candidates_empty]
    /\ UNCHANGED <<container, ef_candidates, mesh, cand>>

Clear ==
    /\ Candidates_clear
    /\ ret' = [op |-> "clear"]
    /\ UNCHANGED <<ef_candidates, mesh, cand>>

\* size_t idx: every index up to one past size() + 1
Index ==
    /\ \E idx \in 0 .. (MaxTotal + 1) :
          ret' = [op |-> "index", idx |-> idx, r |-> Candidates_at(idx)]
    /\ UNCHANGED <<container, ef_candidates, mesh, cand>>

IndexConst ==
    /\ \E idx \in 0 .. (MaxTotal + 1) :
          ret' = [op |-> "index_const", idx |-> idx,
                  r |-> Candidates_at_const(idx)]
    /\ UNCHANGED <<container, ef_candidates, mesh, cand>>

InitContainer ==
    /\ NoMesh
    /\ NoContainer
    /\ cand = [kind |-> "none"]
    /\ ret = [op |-> "none"]

NextContainer ==
    \/ AddEV \/ AddEE \/ AddFV \/ AddEF
    \/ Size \/ Empty \/ Clear \/ Index \/ IndexConst

SpecContainer == InitContainer /\ [][NextContainer]_vars

\* C1: operator[] (const and non-const) returns the i-th EV for i < |ev|, the
\* (i-|ev|)-th EE for |ev| <= i < |ev|+|ee|, the (i-|ev|-|ee|)-th FV for
\* |ev|+|ee| <= i < size(), and throws out_of_range for every i >= size(),
\* an empty container included.
C1_FlatIndex ==
    ret.op \in {"index", "index_const"} =>
        LET i == ret.idx
            nev == Len(ev_candidates)
            nee == Len(ee_candidates)
            nfv == Len(fv_candidates)
        IN  /\ i < nev =>
                  ret.r = Reference("EV", i, ev_candidates[i + 1])
            /\ (nev <= i /\ i < nev + nee) =>
                  ret.r = Reference("EE", i - nev, ee_candidates[i - nev + 1])
            /\ (nev + nee <= i /\ i < nev + nee + nfv) =>
                  ret.r = Reference("FV", i - nev - nee,
                                    fv_candidates[i - nev - nee + 1])
            /\ i >= nev + nee + nfv => ret.r.thrown

C1_Witness ==
    /\ ret.op = "index"
    /\ Len(ev_candidates) = 1 /\ Len(ee_candidates) = 1
    /\ Len(fv_candidates) = 1
    /\ ret.idx = 2
    /\ ret.r.kind = "FV"

C2_SizeEmpty ==
    /\ ret.op = "size" =>
          ret.value = Len(ev_candidates) + Len(ee_candidates) + Len(fv_candidates)
    /\ ret.op = "empty" =>
          (ret.value <=>
              Len(ev_candidates) + Len(ee_candidates) + Len(fv_candidates) = 0)
    /\ Candidates_empty <=> (Candidates_size = 0)
    /\ ret.op = "clear" =>
          /\ ev_candidates = <<>> /\ ee_candidates = <<>> /\ fv_candidates = <<>>
          /\ Candidates_size = 0 /\ Candidates_empty

\* C2: after any insertions and clear() calls, size() is |ev|+|ee|+|fv| and
\* empty() is true exactly when size() is 0; right after clear() the three
\* lists are empty; the edge-face list is neither counted nor changed by
\* size(), empty() or clear().
C2_SizeEmptyClear ==
    /\ []C2_SizeEmpty
    /\ [][ret'.op \in {"size", "empty", "clear"} =>
            ef_candidates' = ef_candidates]_vars

C2_Witness ==
    /\ ret.op = "clear"
    /\ ef_candidates # <<>>

----------------------------------------------------------------------------
(* The OBJ debug writers *)

\* std::ofstream: the lines written so far and whether the stream is still
\* good. A stream that fails accepts `room` lines, then sets its error state
\* and ignores every later write.
Stream(fails, room) ==
    [good |-> TRUE, fails |-> fails, room |-> room, lines |-> <<>>]

\* out << line
Put(out, line) ==
    IF out.good /\ (~out.fails \/ Len(out.lines) < out.room)
    THEN [out EXCEPT !.lines = Append(@, line)]
    ELSE [out EXCEPT !.good = FALSE]

\* "o <name>\n"
ObjectLine(name) == [t |-> "o", name |-> name]
\* row.format(OBJ_VERTEX_FORMAT): "v " then the coordinates, then "\n"
VertexLine(row) == [t |-> "v", row |-> row]
\* fmt::format("l {:d} {:d}\n", a, b)
LLine(a, b) == [t |-> "l", idx |-> <<a, b>>]
\* fmt::format("f {:d} {:d} {:d}\n", a, b, c)
FLine(a, b, c) == [t |-> "f", idx |-> <<a, b, c>>]

\* mutant: the segment is closed on the vertex after the query vertex
save_obj_EV_body_Mutant(out, V, E, F, ev_candidate, i) ==
    LET o1 == Put(out, VertexLine(V[E[ev_candidate.edge_index][0]]))
        o2 == Put(o1, VertexLine(V[E[ev_candidate.edge_index][1]]))
        o3 == Put(o2, VertexLine(V[ev_candidate.vertex_index]))
    IN  Put(o3, LLine(i, i + 3))

\* one pass of the loop of save_obj(EdgeVertexCandidate), before i += 3
save_obj_EV_body(out, V, E, F, ev_candidate, i) ==
    LET o1 == Put(out, VertexLine(V[E[ev_candidate.edge_index][0]]))
        o2 == Put(o1, VertexLine(V[E[ev_candidate.edge_index][1]]))
        o3 == Put(o2, VertexLine(V[ev_candidate.vertex_index]))
    IN  Put(o3, LLine(i, i + 1))

RECURSIVE save_obj_EV_loop(_, _, _, _, _, _, _)
save_obj_EV_loop(out, V, E, F, candidates, n, i) ==
    IF n > Len(candidates) THEN out
    ELSE save_obj_EV_loop(save_obj_EV_body(out, V, E, F, candidates[n], i),
                          V, E, F, candidates, n + 1, i + 3)

save_obj_EV(out, V, E, F, candidates) ==
    save_obj_EV_loop(Put(out, ObjectLine("EV")), V, E, F, candidates, 1, 1)

\* one pass of the loop of save_obj(EdgeEdgeCandidate), before i += 4
save_obj_EE_body(out, V, E, F, ee_candidate, i) ==
    LET o1 == Put(out, VertexLine(V[E[ee_candidate.edge0_index][0]]))
        o2 == Put(o1, VertexLine(V[E[ee_candidate.edge0_index][1]]))
        o3 == Put(o2, VertexLine(V[E[ee_candidate.edge1_index][0]]))
        o4 == Put(o3, VertexLine(V[E[ee_candidate.edge1_index][1]]))
        o5 == Put(o4, LLine(i + 0, i + 1))
    IN  Put(o5, LLine(i + 2, i + 3))

RECURSIVE save_obj_EE_loop(_, _, _, _, _, _, _)
save_obj_EE_loop(out, V, E, F, candidates, n, i) ==
    IF n > Len(candidates) THEN out
    ELSE save_obj_EE_loop(save_obj_EE_body(out, V, E, F, candidates[n], i),
                          V, E, F, candidates, n + 1, i + 4)

save_obj_EE(out, V, E, F, candidates) ==
    save_obj_EE_loop(Put(out, ObjectLine("EE")), V, E, F, candidates, 1, 1)

\* one pass of the loop of save_obj(FaceVertexCandidate), before i += 4;
\* E is not read
save_obj_FV_body(out, V, E, F, fv_candidate, i) ==
    LET o1 == Put(out, VertexLine(V[F[fv_candidate.face_index][0]]))
        o2 == Put(o1, VertexLine(V[F[fv_candidate.face_index][1]]))
        o3 == Put(o2, VertexLine(V[F[fv_candidate.face_index][2]]))
        o4 == Put(o3, VertexLine(V[fv_candidate.vertex_index]))
    IN  Put(o4, FLine(i, i + 1, i + 2))

RECURSIVE save_obj_FV_loop(_, _, _, _, _, _, _)
save_obj_FV_loop(out, V, E, F, candidates, n, i) ==
    IF n > Len(candidates) THEN out
    ELSE save_obj_FV_loop(save_obj_FV_body(out, V, E, F, candidates[n], i),
                          V, E, F, candidates, n + 1, i + 4)

save_obj_FV(out, V, E, F, candidates) ==
    save_obj_FV_loop(Put(out, ObjectLine("FV")), V, E, F, candidates, 1, 1)

\* one pass of the loop of save_obj(EdgeFaceCandidate), before i += 5
save_obj_EF_body(out, V, E, F, ef_candidate, i) ==
    LET o1 == Put(out, VertexLine(V[E[ef_candidate.edge_index][0]]))
        o2 == Put(o1, VertexLine(V[E[ef_candidate.edge_index][1]]))
        o3 == Put(o2, VertexLine(V[F[ef_candidate.face_index][0]]))
        o4 == Put(o3, VertexLine(V[F[ef_candidate.face_index][1]]))
        o5 == Put(o4, VertexLine(V[F[ef_candidate.face_index][2]]))
        o6 == Put(o5, LLine(i, i + 1))
    IN  Put(o6, FLine(i + 2, i + 3, i + 4))

RECURSIVE save_obj_EF_loop(_, _, _, _, _, _, _)
save_obj_EF_loop(out, V, E, F, candidates, n, i) ==
    IF n > Len(candidates) THEN out
    ELSE save_obj_EF_loop(save_obj_EF_body(out, V, E, F, candidates[n], i),
                          V, E, F, candidates, n + 1, i + 5)

save_obj_EF(out, V, E, F, candidates) ==
    save_obj_EF_loop(Put(out, ObjectLine("EF")), V, E, F, candidates, 1, 1)

\* mutant: a list without candidates gets no block
Candidates_save_obj_Mutant(is_open, obj, V, E, F) ==
    IF ~is_open
    THEN [result |-> FALSE, is_open |-> FALSE, obj |-> obj]
    ELSE LET o1 == IF ev_candidates = <<>> THEN obj
                   ELSE save_obj_EV(obj, V, E, F, ev_candidates)
             o2 == IF ee_candidates = <<>> THEN o1
                   ELSE save_obj_EE(o1, V, E, F, ee_candidates)
             o3 == IF fv_candidates = <<>> THEN o2
                   ELSE save_obj_FV(o2, V, F, F, fv_candidates)
         IN  [result |-> TRUE, is_open |-> TRUE, obj |-> o3]

\* Candidates::save_obj; is_open says whether the file could be opened, obj
\* is the stream on it. The face-vertex writer is handed F in the place of E.
Candidates_save_obj(is_open, obj, V, E, F) ==
    IF ~is_open
    THEN [result |-> FALSE, is_open |-> FALSE, obj |-> obj]
    ELSE LET o1 == save_obj_EV(obj, V, E, F, ev_candidates)
             o2 == save_obj_EE(o1, V, E, F, ee_candidates)
             o3 == save_obj_FV(o2, V, F, F, fv_candidates)
         IN  [result |-> TRUE, is_open |-> TRUE, obj |-> o3]

InitObj ==
    /\ \E s \in 0 .. 1 :
          /\ vertices_t0 = VertexTable0(s)
          /\ edges = IF s = 0 THEN EdgeTable(s) ELSE EdgeTableReversed(s)
          /\ faces = FaceTable(s)
    /\ vertices_t1 = vertices_t0
    /\ NoContainer
    /\ cand = [kind |-> "none"]
    /\ ret = [op |-> "none"]

\* the streams a writer is handed: one that never fails, or one that fails
\* after `room` lines
Streams ==
    {Stream(FALSE, 0)} \cup {Stream(TRUE, room) : room \in 0 .. MaxWrites}

SaveObj ==
    /\ \E is_open \in BOOLEAN, obj \in Streams :
          /\ (~is_open => obj = Stream(FALSE, 0))
          /\ ret' = [op |-> "Candidates_save_obj"] @@
                    Candidates_save_obj(is_open, obj, vertices_t0, edges, faces)
    /\ UNCHANGED <<container, ef_candidates, mesh, cand>>

SaveObjEV ==
    /\ ret' = [op |-> "save_obj", kind |-> "EV", count |-> Len(ev_candidates),
               obj |-> save_obj_EV(Stream(FALSE, 0), vertices_t0, edges, faces,
                                   ev_candidates)]
    /\ UNCHANGED <<container, ef_candidates, mesh, cand>>

SaveObjEE ==
    /\ ret' = [op |-> "save_obj", kind |-> "EE", count |-> Len(ee_candidates),
               obj |-> save_obj_EE(Stream(FALSE, 0), vertices_t0, edges, faces,
                                   ee_candidates)]
    /\ UNCHANGED <<container, ef_candidates, mesh, cand>>

SaveObjFV ==
    /\ ret' = [op |-> "save_obj", kind |-> "FV", count |-> Len(fv_candidates),
               obj |-> save_obj_FV(Stream(FALSE, 0), vertices_t0, edges, faces,
                                   fv_candidates)]
    /\ UNCHANGED <<container, ef_candidates, mesh, cand>>

SaveObjEF ==
    /\ ret' = [op |-> "save_obj", kind |-> "EF", count |-> Len(ef_candidates),
               obj |-> save_obj_EF(Stream(FALSE, 0), vertices_t0, edges, faces,
                                   ef_candidates)]
    /\ UNCHANGED <<container, ef_candidates, mesh, cand>>

NextObj ==
    \/ AddEV \/ AddEE \/ AddFV \/ AddEF
    \/ SaveObj \/ SaveObjEV \/ SaveObjEE \/ SaveObjFV \/ SaveObjEF

SpecObj == InitObj /\ [][NextObj]_vars

----------------------------------------------------------------------------
(* What a written file holds *)

\* the names of the `o` lines, in the order written
Headers(lines) ==
    LET os == SelectSeq(lines, LAMBDA ln : ln.t = "o")
    IN  [k \in 1 .. Len(os) |-> os[k].name]

\* the position of the `o` line that opens the block line q lies in
BlockStart(lines, q) ==
    CHOOSE p \in 1 .. q :
        /\ lines[p].t = "o"
        /\ \A r \in (p + 1) .. q : lines[r].t # "o"

\* the number of `v` lines among lines[from .. q-1]
VBefore(lines, from, q) ==
    Cardinality({p \in from .. (q - 1) : lines[p].t = "v"})

\* the number of `v` lines of the block named name (0 when there is none)
BlockVertices(lines, name) ==
    Cardinality({p \in 1 .. Len(lines) :
        /\ lines[p].t = "v"
        /\ lines[BlockStart(lines, p)].name = name})

IsConnectivity(ln) == ln.t \in {"l", "f"}

\* line q is the first connectivity record of its candidate
FirstRecord(lines, q) == IsConnectivity(lines[q]) /\ lines[q - 1].t = "v"

\* the number of candidates written in line q's block before line q's
EarlierCandidates(lines, q) ==
    Cardinality({p \in (BlockStart(lines, q) + 1) .. (q - 1) :
        FirstRecord(lines, p)})

VerticesPerCandidate(name) ==
    CASE name = "EV" -> 3
      [] name = "EE" -> 4
      [] name = "FV" -> 4
      [] name = "EF" -> 5

WroteFile == ret.op = "Candidates_save_obj" /\ ret.is_open

ListOf(name) ==
    CASE name = "EV" -> ev_candidates
      [] name = "EE" -> ee_candidates
      [] name = "FV" -> fv_candidates
      [] name = "EF" -> ef_candidates

C8_SuccessIffWritten ==
    ret.op = "Candidates_save_obj" =>
        (ret.result <=> (ret.is_open /\ ret.obj.good))

\* the indices a connectivity record at line q is to hold when they count
\* the `v` lines of the whole file: the record follows its candidate's
\* vertex lines, g of them written in the file so far
GlobalIndices(lines, q) ==
    LET g == VBefore(lines, 1, q)
        name == lines[BlockStart(lines, q)].name
    IN  CASE name = "EV" -> <<g - 2, g - 1>>
          [] name = "EE" -> IF lines[q - 1].t = "v"
                            THEN <<g - 3, g - 2>>
                            ELSE <<g - 1, g>>
          [] name = "FV" -> <<g - 3, g - 2, g - 1>>

\* C9: in the file Candidates::save_obj writes, the connectivity record of
\* every candidate names, counting the `v` lines of the whole file from 1,
\* the vertex lines this candidate wrote, also in the EE and FV blocks when
\* earlier blocks hold vertices.
C9_RunningIndex ==
    WroteFile =>
        \A q \in 1 .. Len(ret.obj.lines) :
            IsConnectivity(ret.obj.lines[q]) =>
                ret.obj.lines[q].idx = GlobalIndices(ret.obj.lines, q)

====
